---- MODULE Spec2Model ----
(***************************************************************************)
(* Model of the company-listing application:                               *)
(*   - populate_data.Command.handle  (the seeder command)                  *)
(*   - bulletproof_urls              (route table, health_check, home_view)*)
(*                                                                         *)
(* Strings produced by the code are built by concatenation as the code     *)
(* builds them.  An HTML body is kept as the sequence of the fragments     *)
(* (literal pieces and interpolated values) that the code concatenates;    *)
(* Join gives the resulting text.                                          *)
(***************************************************************************)
EXTENDS Naturals, Sequences, FiniteSets

VARIABLES
    collection,   \* rows of the Comapny table, in query order
    sys_path,     \* sys.path of the web process
    app_root,     \* the directory /app: whether it exists, its entries, the
                  \* modules importable from it
    cwd,          \* working directory of the web process: whether it still
                  \* exists, and its path
    urlpatterns,  \* the route table of bulletproof_urls
    loaded,       \* bulletproof_urls has been imported
    load_error,   \* exception that escaped the import of bulletproof_urls
    request,      \* path of the last request handled
    response,     \* response to the last request handled
    handler,      \* view the last request was resolved to ("" when none)
    primary_exc,  \* exception raised by the try block of the last home_view call
    home_count,   \* number of GET / requests handled so far
    path0,        \* sys.path as it was before the first request
    coll0,        \* the collection as it was before the first seeder run
    seed_pc,      \* position of the seeder command
    seed_k,       \* fixture records created by the current/last seeder run
    seed_deleted, \* the current/last seeder run has executed its delete
    seed_err,     \* storage error that aborted the last seeder run
    seed_runs,    \* seeder runs started
    seed_ok,      \* seeder runs completed without error
    stdout,       \* lines written by the current/last seeder run
    t_pc,         \* concurrent GET / requests: position of each
    t_absent,     \* concurrent GET / requests: result of the membership test
    t_exc,        \* concurrent GET / requests: exception raised in the try block
    t_resp        \* concurrent GET / requests: response of each

vars == <<collection, sys_path, app_root, cwd, urlpatterns, loaded, load_error,
          request, response, handler, primary_exc, home_count, path0, coll0,
          seed_pc, seed_k, seed_deleted, seed_err, seed_runs, seed_ok, stdout,
          t_pc, t_absent, t_exc, t_resp>>

load_vars == <<urlpatterns, loaded, load_error>>
req_vars  == <<request, response, handler, primary_exc, home_count>>
seed_vars == <<seed_pc, seed_k, seed_deleted, seed_err, seed_runs, seed_ok, stdout>>
env_vars  == <<app_root, cwd, path0, coll0>>
thr_vars  == <<t_pc, t_absent, t_exc, t_resp>>

(***************************************************************************)
(* Bounds                                                                  *)
(***************************************************************************)
MaxInitRows == 1   \* non-fixture rows in the table before the first seeder run
MaxInitApp  == 2   \* '/app' entries of sys.path before the first request
MaxRuns     == 2   \* seeder runs
MaxRequests == 2   \* sequential GET / requests
NThreads    == 2   \* concurrent GET / requests

(***************************************************************************)
(* Helpers                                                                 *)
(***************************************************************************)
Range(s) == {s[i] : i \in 1..Len(s)}

RECURSIVE Join(_)
Join(frags) == IF frags = <<>> THEN "" ELSE Head(frags) \o Join(Tail(frags))

(***************************************************************************)
(* populate_data.py: the fixture list and the storage operations           *)
(***************************************************************************)
companies ==
    << [Name |-> "Tech Innovations Inc",  ceo |-> "John Smith",
        origin |-> "Silicon Valley, USA", est_year |-> 2010],
       [Name |-> "Global Solutions Ltd",  ceo |-> "Sarah Johnson",
        origin |-> "London, UK",          est_year |-> 2015],
       [Name |-> "Digital Dynamics Corp", ceo |-> "Michael Chen",
        origin |-> "Tokyo, Japan",        est_year |-> 2018],
       [Name |-> "Future Systems",        ceo |-> "Emily Davis",
        origin |-> "Berlin, Germany",     est_year |-> 2020] >>

\* A row that is not part of the fixture list (created through the admin).
OtherCompany ==
    [Name |-> "Acme & Sons", ceo |-> "Wile Coyote",
     origin |-> "Tucson, USA", est_year |-> 1949]

\* Contents of the table before the first seeder run: empty or already
\* seeded, followed by rows that are not fixtures.
InitCollections ==
    { SubSeq(companies, 1, k) \o [i \in 1..m |-> OtherCompany] :
        k \in {0, Len(companies)}, m \in 0..MaxInitRows }

\* Outcome of one storage call: "ok", or the message of the error it raises.
StorageErrors == {"no such table: Class_Based_Viewsapp_comapny"}
StorageOutcomes == {"ok"} \cup StorageErrors

\* Comapny.objects.all() evaluated
objects_all(coll) == coll

\* Variant: the delete is not executed.
objects_delete_skipped(coll) == coll

\* Comapny.objects.all().delete()
objects_delete(coll) == <<>>

\* Comapny.objects.create(**company_data)
objects_create(coll, company_data) == Append(coll, company_data)

\* str(int) for a natural number
Digits == <<"0", "1", "2", "3", "4", "5", "6", "7", "8", "9">>
RECURSIVE str_int(_)
str_int(n) == IF n < 10 THEN Digits[n + 1]
              ELSE str_int(n \div 10) \o Digits[(n % 10) + 1]

created_notice(company) == "Successfully created company: " \o company.Name

populated_notice(n) == "Successfully populated " \o str_int(n) \o " companies"

(***************************************************************************)
(* bulletproof_urls.py: pure parts                                         *)
(***************************************************************************)
APP == "/app"
STDLIB == "/usr/lib/python3"

Modules == {"Class_Based_Viewsapp.views", "Class_Based_Viewsapp.models",
            "Class_Based_Viewsapp.urls"}

\* Contents of /app the model starts from.
ProjectEntries == {"Class_Based_Viewsapp", "manage.py"}

AppRoots ==
    { [exists |-> FALSE, entries |-> {}, modules |-> {}],
      [exists |-> TRUE,  entries |-> {}, modules |-> {}],
      [exists |-> TRUE,  entries |-> ProjectEntries, modules |-> Modules],
      [exists |-> TRUE,  entries |-> ProjectEntries,
       modules |-> {"Class_Based_Viewsapp.views", "Class_Based_Viewsapp.models"}] }

\* Working directories the web process may have: /app when it exists, / when
\* it does not, or a directory that has been removed since the start.
InitCwds(root) ==
    {[ok |-> TRUE, path |-> IF root.exists THEN APP ELSE "/"],
     [ok |-> FALSE, path |-> ""]}

\* sys.path before the first request: the standard library, and '/app' some
\* number of times before or after it.
InitPaths ==
    { <<STDLIB>> \o [i \in 1..m |-> APP] : m \in 0..MaxInitApp } \cup
    { [i \in 1..m |-> APP] \o <<STDLIB>> : m \in 0..MaxInitApp }

\* A response; exc is the exception that escaped the handler ("" when none).
Response(status, ctype, body, exc) ==
    [status |-> status, content_type |-> ctype, body |-> body, exc |-> exc]

NoResponse == Response(0, "", <<>>, "")

\* json.dumps of a flat dict of strings, given as a sequence of <<key, value>>
RECURSIVE json_items(_)
json_items(items) ==
    IF items = <<>> THEN ""
    ELSE "\"" \o Head(items)[1] \o "\": \"" \o Head(items)[2] \o "\""
         \o (IF Len(items) > 1 THEN ", " ELSE "") \o json_items(Tail(items))

json_dumps(items) == "{" \o json_items(items) \o "}"

JsonResponse(items) == Response(200, "application/json", <<json_dumps(items)>>, "")

HttpResponse(body) == Response(200, "text/html; charset=utf-8", body, "")

\* Variant: the health check reports on the table.
health_check_probing ==
    JsonResponse(<< <<"status", IF collection = <<>> THEN "empty" ELSE "healthy">> >>)

\* def health_check(request)
health_check == JsonResponse(<< <<"status", "healthy">> >>)

\* '/app' not in sys.path
app_missing(sp) == APP \notin Range(sp)

\* sys.path.insert(0, '/app')
insert_app(sp) == <<APP>> \o sp

\* Variant: the insertion without the membership test.
ensure_app_path_untested(sp) == insert_app(sp)

\* if '/app' not in sys.path: sys.path.insert(0, '/app')
ensure_app_path(sp) == IF app_missing(sp) THEN insert_app(sp) ELSE sp

\* The import system: a module of the project is found when /app is on the
\* search path and holds it.
importable(m, sp, root) == APP \in Range(sp) /\ root.exists /\ m \in root.modules

import_error(m, sp, root) ==
    IF APP \in Range(sp) /\ root.exists /\ root.modules # {}
    THEN "No module named '" \o m \o "'"
    ELSE "No module named 'Class_Based_Viewsapp'"

\* Variant: the items are prepended instead of appended.
RECURSIVE company_items_prepended(_)
company_items_prepended(cs) ==
    IF cs = <<>> THEN <<>>
    ELSE company_items_prepended(Tail(cs))
         \o <<"<li>", Head(cs).Name, " - CEO: ", Head(cs).ceo, "</li>">>

\* The loop of home_view: one <li> per company, in query order.
RECURSIVE company_items(_)
company_items(cs) ==
    IF cs = <<>> THEN <<>>
    ELSE <<"<li>", Head(cs).Name, " - CEO: ", Head(cs).ceo, "</li>">>
         \o company_items(Tail(cs))

company_list(cs) == <<"<h1>Companies</h1><ul>">> \o company_items(cs) \o <<"</ul>">>

\* repr() of a list of strings
RECURSIVE repr_items(_)
repr_items(xs) ==
    IF xs = <<>> THEN ""
    ELSE "'" \o Head(xs) \o "'" \o (IF Len(xs) > 1 THEN ", " ELSE "")
         \o repr_items(Tail(xs))

repr_list(xs) == "[" \o repr_items(xs) \o "]"

\* os.listdir('/app'): the entries, or the error it raises
listdir_error == "[Errno 2] No such file or directory: '/app'"

listdir_fails(root) == ~root.exists

\* The lists os.listdir('/app') may return: the entries in any order.
listdir(root) ==
    {l \in [1..Cardinality(root.entries) -> root.entries] : Range(l) = root.entries}

\* os.getcwd(): the path, or the error it raises when the directory is gone
getcwd_error == "[Errno 2] No such file or directory"

getcwd_fails(dir) == ~dir.ok

getcwd(dir) == dir.path

\* The f-string of the except branch.
debug_info(e, sp, dir, listing) ==
    <<"\n        <h1>Django is running!</h1>\n        <p>Error: ", e,
      "</p>\n        <p>Python path: ", repr_list(sp),
      "</p>\n        <p>Current directory: ", dir,
      "</p>\n        <p>Directory contents: ", repr_list(listing),
      "</p>\n        ">>

\* Lines 20-21: the exception the two imports raise ("" when none).
imports_error(sp, root) ==
    IF ~importable("Class_Based_Viewsapp.views", sp, root)
    THEN import_error("Class_Based_Viewsapp.views", sp, root)
    ELSE IF ~importable("Class_Based_Viewsapp.models", sp, root)
    THEN import_error("Class_Based_Viewsapp.models", sp, root)
    ELSE ""

\* The try block of home_view after the search-path step: the exception it
\* raises ("" when it returns), given the outcome of the query.
primary_error(sp, root, outcome) ==
    IF imports_error(sp, root) # "" THEN imports_error(sp, root)
    ELSE IF outcome # "ok" THEN outcome
    ELSE ""

\* An exception that leaves the handler: the framework's error response.
Escaped(exc) == Response(500, "", <<>>, exc)

\* Variant: the except branch guards the directory listing.
except_response_guarded(e, sp, dir, root, listing) ==
    IF getcwd_fails(dir) THEN Escaped(getcwd_error)
    ELSE HttpResponse(debug_info(e, sp, getcwd(dir),
                                 IF listdir_fails(root) THEN <<>> ELSE listing))

\* The except branch (lines 30-39) for exception e: the f-string evaluates
\* sys.path, then os.getcwd(), then os.listdir('/app'), which returns listing
\* when it does not raise.
except_response(e, sp, dir, root, listing) ==
    IF getcwd_fails(dir) THEN Escaped(getcwd_error)
    ELSE IF listdir_fails(root) THEN Escaped(listdir_error)
    ELSE HttpResponse(debug_info(e, sp, getcwd(dir), listing))

\* home_view from the import statements on, on search path sp.
home_response(sp, root, dir, coll, outcome, listing) ==
    LET e == primary_error(sp, root, outcome) IN
    IF e = "" THEN HttpResponse(company_list(objects_all(coll)))
    ELSE except_response(e, sp, dir, root, listing)

(***************************************************************************)
(* bulletproof_urls.py: the route table                                    *)
(* A request path is the sequence of its segments: / is <<>>, /health/ is  *)
(* <<"health">>.  path(route, view) matches the whole path; path(route,    *)
(* include(...)) matches a prefix and hands the rest to the included table.*)
(***************************************************************************)
Route(route, view, name, is_include) ==
    [route |-> route, view |-> view, name |-> name, is_include |-> is_include]

base_patterns ==
    << Route(<<>>,         "home_view",       "home",   FALSE),
       Route(<<"health">>, "health_check",    "health", FALSE),
       Route(<<"admin">>,  "admin.site.urls", "",       TRUE) >>

company_route == Route(<<"company">>, "Class_Based_Viewsapp.urls", "", TRUE)

\* include('Class_Based_Viewsapp.urls') at import time: the error it raises
\* ("" when it returns)
include_error(sp, root) ==
    IF importable("Class_Based_Viewsapp.urls", sp, root) THEN ""
    ELSE import_error("Class_Based_Viewsapp.urls", sp, root)

\* Variant: the append outside any try/except.
load_urlconf_unguarded(sp, root) ==
    LET e == include_error(sp, root) IN
    IF e = "" THEN [urlpatterns |-> Append(base_patterns, company_route), error |-> ""]
    ELSE [urlpatterns |-> <<>>, error |-> e]

\* The module body: the literal list, then the append inside try/except
\* Exception/pass.  error is the exception that escapes the module ("" when
\* none); a module whose body raised defines no urlpatterns.
load_urlconf(sp, root) ==
    LET e == include_error(sp, root) IN
    IF e = "" THEN [urlpatterns |-> Append(base_patterns, company_route), error |-> ""]
    ELSE [urlpatterns |-> base_patterns, error |-> ""]

IsPrefix(p, s) == Len(p) <= Len(s) /\ SubSeq(s, 1, Len(p)) = p

matches(r, p) == IF r.is_include THEN IsPrefix(r.route, p) ELSE r.route = p

\* The resolver: the view of the first matching pattern, "" when none matches.
RECURSIVE resolve(_, _)
resolve(patterns, p) ==
    IF patterns = <<>> THEN ""
    ELSE IF matches(Head(patterns), p) THEN Head(patterns).view
    ELSE resolve(Tail(patterns), p)

NotFound == Response(404, "text/html; charset=utf-8", <<>>, "")

\* Requests sent to the application.
HOME    == <<>>
HEALTH  == <<"health">>
COMPANY == <<"company">>
Paths   == {HOME, HEALTH, COMPANY, <<"admin">>, <<"missing">>}

(***************************************************************************)
(* Initial states                                                          *)
(***************************************************************************)
Init ==
    /\ collection \in InitCollections
    /\ coll0 = collection
    /\ sys_path \in InitPaths
    /\ path0 = sys_path
    /\ app_root \in AppRoots
    /\ cwd \in InitCwds(app_root)
    /\ urlpatterns = <<>>
    /\ loaded = FALSE
    /\ load_error = ""
    /\ request = <<"-">>
    /\ response = NoResponse
    /\ handler = ""
    /\ primary_exc = ""
    /\ home_count = 0
    /\ seed_pc = "idle"
    /\ seed_k = 0
    /\ seed_deleted = FALSE
    /\ seed_err = ""
    /\ seed_runs = 0
    /\ seed_ok = 0
    /\ stdout = <<>>
    /\ t_pc = [t \in 1..NThreads |-> "start"]
    /\ t_absent = [t \in 1..NThreads |-> FALSE]
    /\ t_exc = [t \in 1..NThreads |-> ""]
    /\ t_resp = [t \in 1..NThreads |-> NoResponse]

(***************************************************************************)
(* The web process                                                         *)
(***************************************************************************)
\* Import of bulletproof_urls (lines 48-58), before the first request.
LoadUrlconf ==
    /\ ~loaded
    /\ LET r == load_urlconf(sys_path, app_root) IN
        /\ urlpatterns' = r.urlpatterns
        /\ load_error' = r.error
    /\ loaded' = TRUE
    /\ UNCHANGED <<collection, sys_path, req_vars, seed_vars, env_vars, thr_vars>>

Serving == loaded /\ load_error = ""

\* Variant: the handler creates the first fixture row when the table is empty.
GetHome_seeding(outcome, listing) ==
    /\ Serving
    /\ home_count < MaxRequests
    /\ resolve(urlpatterns, HOME) = "home_view"
    /\ LET sp == ensure_app_path(sys_path) IN
        /\ sys_path' = sp
        /\ primary_exc' = primary_error(sp, app_root, outcome)
        /\ response' = home_response(sp, app_root, cwd, collection, outcome, listing)
    /\ collection' = IF collection = <<>> /\ outcome = "ok"
                     THEN objects_create(collection, companies[1])
                     ELSE collection
    /\ request' = HOME
    /\ handler' = "home_view"
    /\ home_count' = home_count + 1
    /\ UNCHANGED <<load_vars, seed_vars, env_vars, thr_vars>>

\* GET / handled by home_view, the query of the try block ending in outcome
\* and os.listdir, where it is reached and does not raise, returning listing.
GetHome(outcome, listing) ==
    /\ Serving
    /\ home_count < MaxRequests
    /\ resolve(urlpatterns, HOME) = "home_view"
    /\ LET sp == ensure_app_path(sys_path) IN
        /\ sys_path' = sp
        /\ primary_exc' = primary_error(sp, app_root, outcome)
        /\ response' = home_response(sp, app_root, cwd, collection, outcome, listing)
    /\ request' = HOME
    /\ handler' = "home_view"
    /\ home_count' = home_count + 1
    /\ UNCHANGED <<collection, load_vars, seed_vars, env_vars, thr_vars>>

\* GET /health/ handled by health_check.
GetHealth ==
    /\ Serving
    /\ resolve(urlpatterns, HEALTH) = "health_check"
    /\ request' = HEALTH
    /\ handler' = "health_check"
    /\ response' = health_check
    /\ primary_exc' = ""
    /\ UNCHANGED <<collection, sys_path, home_count, load_vars, seed_vars,
                   env_vars, thr_vars>>

\* Any other request: not found, or handed to an included table (the admin,
\* the company application), whose response is outside this model.
GetOther(p) ==
    /\ Serving
    /\ resolve(urlpatterns, p) \notin {"home_view", "health_check"}
    /\ request' = p
    /\ handler' = resolve(urlpatterns, p)
    /\ response' = IF resolve(urlpatterns, p) = "" THEN NotFound ELSE NoResponse
    /\ primary_exc' = ""
    /\ UNCHANGED <<collection, sys_path, home_count, load_vars, seed_vars,
                   env_vars, thr_vars>>

(***************************************************************************)
(* The seeder command (a process of its own; every storage call commits)   *)
(***************************************************************************)
\* Line 9: Comapny.objects.all().delete()
SeedDelete(outcome) ==
    /\ seed_pc # "running"
    /\ seed_runs < MaxRuns
    /\ seed_runs' = seed_runs + 1
    /\ seed_k' = 0
    /\ stdout' = <<>>
    /\ IF outcome = "ok"
       THEN /\ collection' = objects_delete(collection)
            /\ seed_deleted' = TRUE
            /\ seed_err' = ""
            /\ seed_pc' = "running"
       ELSE /\ collection' = collection
            /\ seed_deleted' = FALSE
            /\ seed_err' = outcome
            /\ seed_pc' = "aborted"
    /\ UNCHANGED <<sys_path, seed_ok, load_vars, req_vars, env_vars, thr_vars>>

\* Variant: the loop runs in a transaction; a failed create rolls the
\* creations of the run back.
SeedCreate_rollback(outcome) ==
    /\ seed_pc = "running"
    /\ seed_k < Len(companies)
    /\ IF outcome = "ok"
       THEN /\ collection' = objects_create(collection, companies[seed_k + 1])
            /\ stdout' = Append(stdout, created_notice(companies[seed_k + 1]))
            /\ seed_k' = seed_k + 1
            /\ UNCHANGED <<seed_err, seed_pc>>
       ELSE /\ seed_err' = outcome
            /\ seed_pc' = "aborted"
            /\ collection' = <<>>
            /\ UNCHANGED <<stdout, seed_k>>
    /\ UNCHANGED <<sys_path, seed_deleted, seed_runs, seed_ok, load_vars,
                   req_vars, env_vars, thr_vars>>

\* Lines 39-43: one iteration of the loop
SeedCreate(outcome) ==
    /\ seed_pc = "running"
    /\ seed_k < Len(companies)
    /\ IF outcome = "ok"
       THEN /\ collection' = objects_create(collection, companies[seed_k + 1])
            /\ stdout' = Append(stdout, created_notice(companies[seed_k + 1]))
            /\ seed_k' = seed_k + 1
            /\ UNCHANGED <<seed_err, seed_pc>>
       ELSE /\ seed_err' = outcome
            /\ seed_pc' = "aborted"
            /\ UNCHANGED <<collection, stdout, seed_k>>
    /\ UNCHANGED <<sys_path, seed_deleted, seed_runs, seed_ok, load_vars,
                   req_vars, env_vars, thr_vars>>

\* Lines 45-47: the aggregate notice, and the command returns
SeedFinish ==
    /\ seed_pc = "running"
    /\ seed_k = Len(companies)
    /\ stdout' = Append(stdout, populated_notice(Len(companies)))
    /\ seed_pc' = "done"
    /\ seed_ok' = seed_ok + 1
    /\ UNCHANGED <<collection, sys_path, seed_k, seed_deleted, seed_err,
                   seed_runs, load_vars, req_vars, env_vars, thr_vars>>

Next ==
    \/ LoadUrlconf
    \/ \E o \in StorageOutcomes, l \in listdir(app_root) : GetHome(o, l)
    \/ GetHealth
    \/ \E p \in Paths : GetOther(p)
    \/ \E o \in StorageOutcomes : SeedDelete(o)
    \/ \E o \in StorageOutcomes : SeedCreate(o)
    \/ SeedFinish

Spec == Init /\ [][Next]_vars

(***************************************************************************)
(* Concurrent GET / requests: worker threads of one web process.  The      *)
(* membership test and the insertion of home_view are separate steps, and  *)
(* another thread may run between them.                                    *)
(***************************************************************************)
Threads == 1..NThreads

\* Line 16: the membership test
ThreadTest(t) ==
    /\ Serving
    /\ resolve(urlpatterns, HOME) = "home_view"
    /\ t_pc[t] = "start"
    /\ t_absent' = [t_absent EXCEPT ![t] = app_missing(sys_path)]
    /\ t_pc' = [t_pc EXCEPT ![t] = "tested"]
    /\ UNCHANGED <<collection, sys_path, t_exc, t_resp, load_vars, req_vars,
                   seed_vars, env_vars>>

\* Line 17: the insertion, when the test found '/app' absent
ThreadInsert(t) ==
    /\ t_pc[t] = "tested"
    /\ sys_path' = IF t_absent[t] THEN insert_app(sys_path) ELSE sys_path
    /\ t_pc' = [t_pc EXCEPT ![t] = "imports"]
    /\ UNCHANGED <<collection, t_absent, t_exc, t_resp, load_vars, req_vars,
                   seed_vars, env_vars>>

\* Lines 20-21: the imports, searched on sys.path as it is now
ThreadImports(t) ==
    /\ t_pc[t] = "imports"
    /\ t_exc' = [t_exc EXCEPT ![t] = imports_error(sys_path, app_root)]
    /\ t_pc' = [t_pc EXCEPT ![t] =
                  IF imports_error(sys_path, app_root) = "" THEN "query" ELSE "except"]
    /\ UNCHANGED <<collection, sys_path, t_absent, t_resp, load_vars, req_vars,
                   seed_vars, env_vars>>

\* Lines 24-29: the query and the list, or the query's exception
ThreadQuery(t, outcome) ==
    /\ t_pc[t] = "query"
    /\ IF outcome = "ok"
       THEN /\ t_resp' = [t_resp EXCEPT ![t] =
                            HttpResponse(company_list(objects_all(collection)))]
            /\ t_pc' = [t_pc EXCEPT ![t] = "done"]
            /\ UNCHANGED t_exc
       ELSE /\ t_exc' = [t_exc EXCEPT ![t] = outcome]
            /\ t_pc' = [t_pc EXCEPT ![t] = "except"]
            /\ UNCHANGED t_resp
    /\ UNCHANGED <<collection, sys_path, t_absent, load_vars, req_vars,
                   seed_vars, env_vars>>

\* Lines 30-39: the except branch, printing sys.path as it is now
ThreadExcept(t, listing) ==
    /\ t_pc[t] = "except"
    /\ t_resp' = [t_resp EXCEPT ![t] =
                    except_response(t_exc[t], sys_path, cwd, app_root, listing)]
    /\ t_pc' = [t_pc EXCEPT ![t] = "done"]
    /\ UNCHANGED <<collection, sys_path, t_absent, t_exc, load_vars, req_vars,
                   seed_vars, env_vars>>

NextConc ==
    \/ LoadUrlconf
    \/ \E t \in Threads : ThreadTest(t)
    \/ \E t \in Threads : ThreadInsert(t)
    \/ \E t \in Threads : ThreadImports(t)
    \/ \E t \in Threads, o \in StorageOutcomes : ThreadQuery(t, o)
    \/ \E t \in Threads, l \in listdir(app_root) : ThreadExcept(t, l)

SpecConc == Init /\ [][NextConc]_vars

(***************************************************************************)
(* Properties                                                              *)
(***************************************************************************)
HtmlType == "text/html; charset=utf-8"

Count(s, x) == Cardinality({i \in 1..Len(s) : s[i] = x})

Max(a, b) == IF a >= b THEN a ELSE b

Contains(body, x) == \E i \in 1..Len(body) : body[i] = x

\* The fixture data as the seeder's literal list gives it.
FixtureNames == <<"Tech Innovations Inc", "Global Solutions Ltd",
                  "Digital Dynamics Corp", "Future Systems">>
FixtureCeos  == <<"John Smith", "Sarah Johnson", "Michael Chen", "Emily Davis">>
FixtureOrigins == <<"Silicon Valley, USA", "London, UK", "Tokyo, Japan",
                    "Berlin, Germany">>
FixtureYears == <<2010, 2015, 2018, 2020>>

Fixture(i) == [Name |-> FixtureNames[i], ceo |-> FixtureCeos[i],
               origin |-> FixtureOrigins[i], est_year |-> FixtureYears[i]]

\* C1: whenever a seeder run has completed without a storage error, whatever
\* the table held before and however many runs preceded it, the table holds
\* exactly 4 rows: each of the four fixture rows once, and nothing else.
Thm_C1_SeededExactlyFixtures ==
    seed_pc = "done" =>
        /\ Len(collection) = 4
        /\ \A i \in 1..4 : Count(collection, Fixture(i)) = 1

\* Two completed runs, starting from a seeded table with a foreign row.
Wit_C1_TwoRunsOverOldRows ==
    /\ seed_pc = "done"
    /\ seed_ok = 2
    /\ OtherCompany \in Range(coll0)
    /\ Fixture(1) \in Range(coll0)

\* C2: whenever the try block of home_view raised, the response to GET / is
\* a 200 HTML page whose body contains the exception's string form.
CE_C2_FallbackAlwaysAnswers ==
    (request = HOME /\ handler = "home_view" /\ primary_exc # "") =>
        /\ response.status = 200
        /\ response.content_type = HtmlType
        /\ Contains(response.body, primary_exc)

\* C3: a GET / whose imports and query succeed answers 200 with the list
\* heading, then one <li> item per row of the table in query order holding
\* that row's Name and ceo, then the closing tag; for the seeded table this is
\* the page naming the four companies and their CEOs, for the empty table
\* the empty list.
Thm_C3_ListPerRecord ==
    [][ (home_count' = home_count + 1 /\ primary_exc' = "") =>
          /\ response'.status = 200
          /\ response'.content_type = HtmlType
          /\ response'.exc = ""
          /\ Len(response'.body) = 2 + 5 * Len(collection)
          /\ response'.body[1] = "<h1>Companies</h1><ul>"
          /\ response'.body[Len(response'.body)] = "</ul>"
          /\ \A i \in 1..Len(collection) :
                /\ response'.body[5 * i - 3] = "<li>"
                /\ response'.body[5 * i - 2] = collection[i].Name
                /\ response'.body[5 * i - 1] = " - CEO: "
                /\ response'.body[5 * i] = collection[i].ceo
                /\ response'.body[5 * i + 1] = "</li>"
          /\ (collection = <<>> =>
                Join(response'.body) = "<h1>Companies</h1><ul></ul>")
          /\ (collection = <<Fixture(1), Fixture(2), Fixture(3), Fixture(4)>> =>
                Join(response'.body) =
                    "<h1>Companies</h1><ul>"
                    \o "<li>Tech Innovations Inc - CEO: John Smith</li>"
                    \o "<li>Global Solutions Ltd - CEO: Sarah Johnson</li>"
                    \o "<li>Digital Dynamics Corp - CEO: Michael Chen</li>"
                    \o "<li>Future Systems - CEO: Emily Davis</li>"
                    \o "</ul>")
      ]_vars

\* GET / answered from the table a seeder run has just filled.
Wit_C3_SeededListServed ==
    /\ request = HOME
    /\ primary_exc = ""
    /\ seed_ok = 1
    /\ coll0 = <<OtherCompany>>
    /\ response.status = 200
    /\ Len(response.body) = 22
    /\ Contains(response.body, "Emily Davis")

\* C4: once the route table is built, GET /health/ resolves to health_check
\* in every state, and its response is exactly {"status": "healthy"} with
\* status 200 and no exception, whatever the table, the seeder and the route
\* table are.
Thm_C4_HealthConstant ==
    /\ loaded => (load_error = "" /\ resolve(urlpatterns, HEALTH) = "health_check")
    /\ request = HEALTH =>
        /\ handler = "health_check"
        /\ response.status = 200
        /\ response.content_type = "application/json"
        /\ response.body = <<"{\"status\": \"healthy\"}">>
        /\ response.exc = ""

\* GET /health/ answered while the table is empty after an aborted seeder
\* run and the company route is absent.
Wit_C4_HealthWhileDegraded ==
    /\ request = HEALTH
    /\ response.status = 200
    /\ seed_pc = "aborted"
    /\ collection = <<>>
    /\ Len(urlpatterns) = 3

\* The include of the company routes raises at import time.
IncludeFails ==
    ~(APP \in Range(path0) /\ app_root.exists
      /\ "Class_Based_Viewsapp.urls" \in app_root.modules)

RoutesOf(patterns) == [i \in 1..Len(patterns) |-> patterns[i].route]

\* C5: when the include of the company routes raises, the module still
\* loads without an exception and the table holds exactly the home, health
\* and admin routes, so GET /company/ is not found; when the include
\* succeeds the table holds those three and company/.
Thm_C5_RouteTableDegrades ==
    loaded =>
        /\ load_error = ""
        /\ IncludeFails =>
             /\ RoutesOf(urlpatterns) = << <<>>, <<"health">>, <<"admin">> >>
             /\ resolve(urlpatterns, COMPANY) = ""
             /\ (request = COMPANY => response.status = 404)
        /\ ~IncludeFails =>
             /\ RoutesOf(urlpatterns) =
                    << <<>>, <<"health">>, <<"admin">>, <<"company">> >>
             /\ resolve(urlpatterns, COMPANY) = "Class_Based_Viewsapp.urls"

\* GET /company/ answered not found by a table built without the sub-route.
Wit_C5_CompanyNotFound ==
    /\ loaded
    /\ IncludeFails
    /\ request = COMPANY
    /\ response.status = 404

\* C6: a seeder run aborted by a storage error at the creation of the k-th
\* fixture row (k = seed_k + 1) leaves the table holding exactly the first
\* k-1 fixture rows: the rows deleted stay deleted, nothing later is created.
Thm_C6_AbortKeepsPrefix ==
    (seed_pc = "aborted" /\ seed_deleted) =>
        /\ seed_err \in StorageErrors
        /\ seed_k < 4
        /\ Len(collection) = seed_k
        /\ \A i \in 1..seed_k : Count(collection, Fixture(i)) = 1

\* A run over a non-empty table aborted at its third creation.
Wit_C6_AbortAtThird ==
    /\ seed_pc = "aborted"
    /\ seed_deleted
    /\ seed_k = 2
    /\ coll0 # <<>>
    /\ collection = <<Fixture(1), Fixture(2)>>

\* C7: after one or more sequential GET / requests the search path is the
\* initial one with '/app' put in front if it was absent: '/app' is present,
\* it occurs max(1, initial occurrences) times, and the path is the same
\* after every request from the first on.
Thm_C7_PathIdempotent ==
    home_count >= 1 =>
        /\ APP \in Range(sys_path)
        /\ Count(sys_path, APP) = Max(1, Count(path0, APP))
        /\ sys_path = IF Count(path0, APP) = 0 THEN <<APP>> \o path0 ELSE path0

\* Two requests, the last on the fallback path, from a path without '/app'.
Wit_C7_TwoRequests ==
    /\ home_count = 2
    /\ Count(path0, APP) = 0
    /\ primary_exc # ""
    /\ Count(sys_path, APP) = 1

\* C8: when the try block raised and /app cannot be listed, the request
\* ends with an exception escaping the handler: status 500, no body, and not
\* the debug page of the original exception.  Where the except branch
\* reaches os.listdir (the working directory exists) the exception is the
\* listing's; where os.getcwd() raises before it, it is that one.
Thm_C8_FallbackUnprotected ==
    (request = HOME /\ handler = "home_view" /\ primary_exc # ""
     /\ ~app_root.exists) =>
        /\ response.status = 500
        /\ response.body = <<>>
        /\ response.exc # primary_exc
        /\ cwd.ok => response.exc = "[Errno 2] No such file or directory: '/app'"
        /\ ~cwd.ok => response.exc = "[Errno 2] No such file or directory"

\* GET / with /app absent, from a process whose working directory exists.
Wit_C8_ListingFailed ==
    /\ request = HOME
    /\ primary_exc = "No module named 'Class_Based_Viewsapp'"
    /\ ~app_root.exists
    /\ cwd.ok
    /\ response.status = 500
    /\ response.exc = "[Errno 2] No such file or directory: '/app'"

\* C9: when all concurrent GET / requests have finished, starting from a
\* search path without '/app', the path holds '/app' exactly once.
CE_C9_SingleInsertion ==
    ((\A t \in Threads : t_pc[t] = "done") /\ Count(path0, APP) = 0) =>
        Count(sys_path, APP) = 1

\* C10: a step that handles a request leaves the table as it is; the table
\* changes only in a step of the seeder, and then by the delete-all or by
\* the insertion of a fixture row.
Thm_C10_RequestsReadOnly ==
    [][ /\ (request' # request \/ response' # response
            \/ home_count' # home_count \/ handler' # handler)
           => collection' = collection
        /\ seed_vars' = seed_vars => collection' = collection
        /\ collection' # collection =>
             \/ collection' = <<>>
             \/ \E i \in 1..4 : collection' = Append(collection, Fixture(i))
      ]_vars

\* Requests on both paths of home_view handled in the middle of a seeder run.
Wit_C10_RequestsMidSeeding ==
    /\ home_count = 2
    /\ request = HOME
    /\ primary_exc # ""
    /\ response.status = 200
    /\ seed_pc = "running"
    /\ seed_k = 2
    /\ collection = <<Fixture(1), Fixture(2)>>

====
